---- MODULE Spec2Model ----
(***************************************************************************)
(* Line-to-lane geometry pipeline of cv-intro: lane_detection.py           *)
(* (deduplication, side classification, merging, extension, pairing) and   *)
(* lane_following.py (lane centre, direction, steering angle, curvature,    *)
(* lane width).                                                            *)
(*                                                                         *)
(* Numbers.  Segment coordinates are integers (HoughLinesP output).  Every *)
(* Python float is modelled by an exact rational <<n, d>> with d > 0 in     *)
(* lowest terms; d = 0 encodes the IEEE specials (<<1,0>> = inf,           *)
(* <<-1,0>> = -inf, <<0,0>> = nan).  Rounding error of binary floating     *)
(* point is modelled where it decides a result: the int() of a value       *)
(* np.polyfit produced is either of the two integers rounding can give     *)
(* (PyIntOfFit), so a merge has a set of outcomes.  Elsewhere the inputs   *)
(* used keep every comparison and truncation away from a tie that rounding *)
(* could flip.  A Python ZeroDivisionError is the value                    *)
(* ZeroDivisionError, which every arithmetic operator propagates; a        *)
(* function whose computation meets it returns Raise.                      *)
(***************************************************************************)
EXTENDS Integers, Sequences, FiniteSets, TLC

VARIABLES pc, frame, lines, detected, info, call

vars == <<pc, frame, lines, detected, info, call>>

-----------------------------------------------------------------------------
(* Exact arithmetic standing for Python floats                              *)

Abs(n) == IF n < 0 THEN -n ELSE n

Sgn(n) == IF n > 0 THEN 1 ELSE IF n < 0 THEN -1 ELSE 0

RECURSIVE Gcd(_, _)
Gcd(a, b) == IF b = 0 THEN a ELSE Gcd(b, a % b)

ZeroDivisionError == <<0, -1>>

Inf == <<1, 0>>

Norm(n, d) ==
  IF d = 0 THEN <<Sgn(n), 0>>
  ELSE LET g == Gcd(Abs(n), Abs(d))
           s == Sgn(d)
       IN <<(s * n) \div g, (s * d) \div g>>

R(n) == <<n, 1>>

IsErr(a) == a[2] < 0

IsFinite(a) == a[2] > 0

IsNaN(a) == a = <<0, 0>>

RNeg(a) == IF IsErr(a) THEN a ELSE <<-a[1], a[2]>>

RAbs(a) == IF IsErr(a) THEN a ELSE <<Abs(a[1]), a[2]>>

RAdd(a, b) ==
  IF IsErr(a) \/ IsErr(b) THEN ZeroDivisionError
  ELSE IF IsFinite(a) /\ IsFinite(b) THEN Norm(a[1] * b[2] + b[1] * a[2], a[2] * b[2])
  ELSE IF IsFinite(a) THEN b
  ELSE IF IsFinite(b) THEN a
  ELSE IF a = b THEN a ELSE <<0, 0>>

RSub(a, b) == RAdd(a, RNeg(b))

RMul(a, b) ==
  IF IsErr(a) \/ IsErr(b) THEN ZeroDivisionError
  ELSE Norm(a[1] * b[1], a[2] * b[2])

\* Python's a / b: raises ZeroDivisionError when b == 0
PyDiv(a, b) ==
  IF IsErr(a) \/ IsErr(b) THEN ZeroDivisionError
  ELSE IF IsFinite(b) /\ b[1] = 0 THEN ZeroDivisionError
  ELSE IF IsFinite(b) THEN Norm(a[1] * b[2] * Sgn(b[1]), a[2] * Abs(b[1]))
  ELSE IF IsFinite(a) /\ ~IsNaN(b) THEN <<0, 1>>
  ELSE <<0, 0>>

\* a < b; every comparison with nan is False
RLt(a, b) ==
  IF IsNaN(a) \/ IsNaN(b) \/ IsErr(a) \/ IsErr(b) THEN FALSE
  ELSE IF IsFinite(a) /\ IsFinite(b) THEN a[1] * b[2] < b[1] * a[2]
  ELSE IF IsFinite(a) THEN b[1] > 0
  ELSE IF IsFinite(b) THEN a[1] < 0
  ELSE a[1] < b[1]

RLe(a, b) == RLt(a, b) \/ (a = b /\ ~IsNaN(a) /\ ~IsErr(a))

\* Python's max(a, b) and min(a, b): the first argument unless the second beats it
PyMax(a, b) == IF RLt(a, b) THEN b ELSE a

PyMin(a, b) == IF RLt(b, a) THEN b ELSE a

\* int(x): truncation toward zero of a finite value
PyInt(a) == IF a[1] >= 0 THEN a[1] \div a[2] ELSE -((-a[1]) \div a[2])

\* int(y) of a value y that np.polyfit's coefficients produce: the set of
\* results it can have.  The coefficients carry the rounding error of a
\* floating-point least-squares solve, so where the exact y is an integer k
\* the float may fall short of it, and int() then gives the neighbour of k
\* toward zero.
PyIntOfFit(a) ==
  IF a[2] = 1 THEN {a[1], a[1] - Sgn(a[1])} ELSE {PyInt(a)}

\* a vertical-line guard that never triggers
NearZeroInt_never(v) == FALSE

\* abs(v) < 1e-6 for an integer v
NearZeroInt(v) == Abs(v) * 1000000 < 1

\* abs(a) < 1e-6 for a float a
NearZero(a) == RLt(RAbs(a), <<1, 1000000>>)

-----------------------------------------------------------------------------
(* Python values                                                            *)

PyNone == [type |-> "None"]

PyList(s) == [type |-> "list", items |-> s]

PyNum(a) == [type |-> "num", v |-> a]

Raise == [exc |-> "ZeroDivisionError"]

Return(v) == [exc |-> "none", value |-> v]

Raised(r) == r.exc # "none"

SeqToSet(s) == {s[i] : i \in 1..Len(s)}

\* squared Euclidean length; sqrt is monotone, so max(key=length) orders by it
Length2(l) == (l[3] - l[1]) * (l[3] - l[1]) + (l[4] - l[2]) * (l[4] - l[2])

\* max(indices, key=length) over the index sequence idx of ls: the first longest
RECURSIVE Longest(_, _, _, _)
Longest(ls, idx, k, best) ==
  IF k > Len(idx) THEN best
  ELSE Longest(ls, idx, k + 1,
               IF Length2(ls[idx[k]]) > Length2(ls[best]) THEN idx[k] ELSE best)

-----------------------------------------------------------------------------
(* lane_detection.remove_duplicate_lines                                    *)

slope_tolerance == <<8, 100>>

position_tolerance == <<50, 1>>

\* the feature record of one line, line 45-49
LineData(l) ==
  LET slope == PyDiv(R(l[4] - l[2]), R(l[3] - l[1]))
  IN [line |-> l,
      slope |-> slope,
      mid_x |-> Norm(l[1] + l[3], 2),
      length2 |-> Length2(l)]

\* lines 40-42: "Skip very short or vertical lines"
TooShort(l) == Abs(l[3] - l[1]) < 5

\* line 52: 0.1 <= abs(slope) <= 5.0
ReasonableSlope(d) == RLe(<<1, 10>>, RAbs(d.slope)) /\ RLe(RAbs(d.slope), <<5, 1>>)

\* lines 36-61: line_data, in input order
RECURSIVE FilterLines(_, _)
FilterLines(ls, i) ==
  IF i > Len(ls) THEN <<>>
  ELSE IF TooShort(ls[i]) THEN FilterLines(ls, i + 1)
  ELSE IF ReasonableSlope(LineData(ls[i])) THEN <<LineData(ls[i])>> \o FilterLines(ls, i + 1)
  ELSE FilterLines(ls, i + 1)

\* lines 84-87
SimilarLines(d1, d2) ==
  /\ RLt(RAbs(RSub(d1.slope, d2.slope)), slope_tolerance)
  /\ RLt(RAbs(RSub(d1.mid_x, d2.mid_x)), position_tolerance)

RECURSIVE IndexSeq(_, _, _)
IndexSeq(S, lo, hi) ==
  IF lo > hi THEN <<>>
  ELSE IF lo \in S THEN <<lo>> \o IndexSeq(S, lo + 1, hi)
  ELSE IndexSeq(S, lo + 1, hi)

\* lines 67-93: the clusters, each a sequence of indices into data
RECURSIVE Clusters(_, _, _)
Clusters(data, i, used) ==
  IF i > Len(data) THEN <<>>
  ELSE IF i \in used THEN Clusters(data, i + 1, used)
  ELSE LET cluster_indices ==
             {i} \cup {j \in (i + 1)..Len(data) :
                         j \notin used /\ SimilarLines(data[i], data[j])}
       IN <<IndexSeq(cluster_indices, i, Len(data))>>
            \o Clusters(data, i + 1, used \cup cluster_indices)

remove_duplicate_lines(ls) ==
  IF ls.type = "None" \/ Len(ls.items) = 0 THEN Return(ls)
  ELSE LET line_data == FilterLines(ls.items, 1)
           \* every slope line 45 computes
           slopes == {LineData(ls.items[i]).slope :
                        i \in {k \in 1..Len(ls.items) : ~TooShort(ls.items[k])}}
           clusters == Clusters(line_data, 1, {})
           kept == [i \in 1..Len(line_data) |-> line_data[i].line]
           unique_lines ==
             [c \in 1..Len(clusters) |->
                kept[Longest(kept, clusters[c], 1, clusters[c][1])]]
       IN IF ZeroDivisionError \in slopes THEN Raise
          ELSE IF Len(line_data) = 0 THEN Return(PyNone)
          ELSE Return(PyList(unique_lines))

-----------------------------------------------------------------------------
(* lane_detection.classify_lines_by_position_and_slope                      *)

\* a classifier that looks at the slope alone
ClassifyLine_slope_only(l, img_width) ==
  LET slope == PyDiv(R(l[4] - l[2]), R(l[3] - l[1]))
  IN IF NearZeroInt(l[3] - l[1]) THEN [side |-> "none", slope |-> Inf]
     ELSE IF RLt(slope, <<-2, 10>>) THEN [side |-> "left", slope |-> slope]
     ELSE IF RLt(<<2, 10>>, slope) THEN [side |-> "right", slope |-> slope]
     ELSE [side |-> "none", slope |-> slope]

\* lines 116-132 for one line: "left", "right" or "none"; with the slope it computed
ClassifyLine(l, img_width) ==
  LET center_x == Norm(img_width, 2)
      slope == PyDiv(R(l[4] - l[2]), R(l[3] - l[1]))
      mid_x == Norm(l[1] + l[3], 2)
  IN IF NearZeroInt(l[3] - l[1]) THEN [side |-> "none", slope |-> Inf]
     ELSE IF RLt(mid_x, center_x)
          THEN [side |-> IF RLt(slope, <<-2, 10>>) THEN "left" ELSE "none", slope |-> slope]
          ELSE [side |-> IF RLt(<<2, 10>>, slope) THEN "right" ELSE "none", slope |-> slope]

RECURSIVE SelectSide(_, _, _, _)
SelectSide(ls, img_width, side, i) ==
  IF i > Len(ls) THEN <<>>
  ELSE IF ClassifyLine(ls[i], img_width).side = side
       THEN <<ls[i]>> \o SelectSide(ls, img_width, side, i + 1)
       ELSE SelectSide(ls, img_width, side, i + 1)

classify_lines_by_position_and_slope(ls, img_width) ==
  IF ls.type = "None" THEN Return([left_lines |-> <<>>, right_lines |-> <<>>])
  ELSE IF \E i \in 1..Len(ls.items) : IsErr(ClassifyLine(ls.items[i], img_width).slope)
       THEN Raise
       ELSE Return([left_lines |-> SelectSide(ls.items, img_width, "left", 1),
                    right_lines |-> SelectSide(ls.items, img_width, "right", 1)])

-----------------------------------------------------------------------------
(* lane_detection.merge_similar_lines_in_group                              *)

merge_threshold == <<15, 100>>

\* lines 151 and 162: the slope, or float('inf') for a vertical line
SlopeOrInf(l) ==
  IF Abs(l[3] - l[1]) * 1000000 > 1 THEN PyDiv(R(l[4] - l[2]), R(l[3] - l[1])) ELSE Inf

\* lines 146-171: the groups of similar lines, each a sequence of indices into ls
RECURSIVE SimilarGroups(_, _, _)
SimilarGroups(ls, i, used) ==
  IF i > Len(ls) THEN <<>>
  ELSE IF i \in used THEN SimilarGroups(ls, i + 1, used)
  ELSE LET similar_indices ==
             {i} \cup {j \in (i + 1)..Len(ls) :
                         /\ j \notin used
                         /\ RLt(RAbs(RSub(SlopeOrInf(ls[i]), SlopeOrInf(ls[j]))),
                                merge_threshold)}
       IN <<IndexSeq(similar_indices, i, Len(ls))>>
            \o SimilarGroups(ls, i + 1, used \cup similar_indices)

RECURSIVE SumSeq(_, _)
SumSeq(s, i) == IF i > Len(s) THEN 0 ELSE s[i] + SumSeq(s, i + 1)

SetMin(S) == CHOOSE m \in S : \A v \in S : m <= v

SetMax(S) == CHOOSE m \in S : \A v \in S : m >= v

\* a fit that averages the slopes and intercepts of the segments instead
Polyfit1_average(all_x, all_y) ==
  LET n == Len(all_x) \div 2
      slopes == [k \in 1..n |-> PyDiv(R(all_y[2 * k] - all_y[2 * k - 1]),
                                      R(all_x[2 * k] - all_x[2 * k - 1]))]
      RECURSIVE RSum(_, _)
      RSum(f, k) == IF k > n THEN R(0) ELSE RAdd(f[k], RSum(f, k + 1))
      slope == PyDiv(RSum(slopes, 1), R(n))
      intercepts == [k \in 1..n |-> RSub(R(all_y[2 * k - 1]),
                                         RMul(slopes[k], R(all_x[2 * k - 1])))]
  IN <<slope, PyDiv(RSum(intercepts, 1), R(n))>>

\* np.polyfit(all_x, all_y, 1): the least-squares line <<slope, intercept>>.
\* The sums are taken about (min x, min y); the fitted line is the same.
Polyfit1(all_x, all_y) ==
  LET n == Len(all_x)
      x0 == SetMin(SeqToSet(all_x))
      y0 == SetMin(SeqToSet(all_y))
      Sx == SumSeq([i \in 1..n |-> all_x[i] - x0], 1)
      Sy == SumSeq([i \in 1..n |-> all_y[i] - y0], 1)
      Sxx == SumSeq([i \in 1..n |-> (all_x[i] - x0) * (all_x[i] - x0)], 1)
      Sxy == SumSeq([i \in 1..n |-> (all_x[i] - x0) * (all_y[i] - y0)], 1)
      D == n * Sxx - Sx * Sx
      slope == PyDiv(R(n * Sxy - Sx * Sy), R(D))
      b0 == PyDiv(R(Sy * Sxx - Sx * Sxy), R(D))
  IN <<slope, RSub(RAdd(b0, R(y0)), RMul(slope, R(x0)))>>

\* lines 174-201: the lines one group of similar lines can contribute, one
\* for each rounding outcome of the fit
MergedLine(ls, idx) ==
  IF Len(idx) > 1
  THEN LET all_x == [k \in 1..(2 * Len(idx)) |->
                       IF k % 2 = 1 THEN ls[idx[(k + 1) \div 2]][1] ELSE ls[idx[k \div 2]][3]]
           all_y == [k \in 1..(2 * Len(idx)) |->
                       IF k % 2 = 1 THEN ls[idx[(k + 1) \div 2]][2] ELSE ls[idx[k \div 2]][4]]
       IN IF Cardinality(SeqToSet(all_x)) > 1
          THEN LET coeffs == Polyfit1(all_x, all_y)
                   min_x == SetMin(SeqToSet(all_x))
                   max_x == SetMax(SeqToSet(all_x))
                   y1_new == RAdd(RMul(coeffs[1], R(min_x)), coeffs[2])
                   y2_new == RAdd(RMul(coeffs[1], R(max_x)), coeffs[2])
               IN {<<min_x, a, max_x, b>> : a \in PyIntOfFit(y1_new), b \in PyIntOfFit(y2_new)}
          ELSE {ls[Longest(ls, idx, 1, idx[1])]}
  ELSE {ls[idx[1]]}

\* every list that takes one line of each set of the sequence choices
OneOfEach(choices) ==
  {f \in [1..Len(choices) -> UNION {choices[g] : g \in 1..Len(choices)}] :
     \A g \in 1..Len(choices) : f[g] \in choices[g]}

\* the set of outcomes of merge_similar_lines_in_group(ls): one but for the
\* rounding of the fits
merge_similar_lines_in_group(ls) ==
  IF Len(ls) = 0 \/ Len(ls) <= 1 THEN {Return(ls)}
  ELSE IF \E i \in 1..Len(ls) : IsErr(SlopeOrInf(ls[i])) THEN {Raise}
  ELSE LET groups == SimilarGroups(ls, 1, {})
       IN {Return(merged) :
             merged \in OneOfEach([g \in 1..Len(groups) |-> MergedLine(ls, groups[g])])}

-----------------------------------------------------------------------------
(* lane_detection.extend_line_to_full_height                                *)

extend_line_to_full_height(line, img_height, img_width) ==
  LET x1 == line[1]
      y1 == line[2]
      x2 == line[3]
      y2 == line[4]
      slope == PyDiv(R(y2 - y1), R(x2 - x1))
      intercept == RSub(R(y1), RMul(slope, R(x1)))
      y_top == 0
      y_bottom == img_height - 1
      x_top == IF ~NearZero(slope) THEN PyDiv(RSub(R(y_top), intercept), slope) ELSE R(x1)
      x_bottom == IF ~NearZero(slope) THEN PyDiv(RSub(R(y_bottom), intercept), slope) ELSE R(x1)
      x_top_c == PyMax(R(0), PyMin(R(img_width - 1), x_top))
      x_bottom_c == PyMax(R(0), PyMin(R(img_width - 1), x_bottom))
  IN IF NearZeroInt(x2 - x1) THEN Return(<<x1, 0, x1, img_height - 1>>)
     ELSE IF IsErr(slope) \/ IsErr(x_top) \/ IsErr(x_bottom) THEN Raise
     ELSE Return(<<PyInt(x_top_c), y_top, PyInt(x_bottom_c), y_bottom>>)

-----------------------------------------------------------------------------
(* lane_detection.get_slopes_intercepts                                     *)

get_slopes_intercepts(ls) ==
  IF ls.type = "None" THEN Return([slopes |-> <<>>, intercepts |-> <<>>])
  ELSE LET slopes == [i \in 1..Len(ls.items) |->
                        LET l == ls.items[i]
                        IN IF NearZeroInt(l[3] - l[1]) THEN Inf
                           ELSE PyDiv(R(l[4] - l[2]), R(l[3] - l[1]))]
           intercepts == [i \in 1..Len(ls.items) |->
                            LET l == ls.items[i]
                            IN IF NearZeroInt(l[3] - l[1]) THEN R(l[1])
                               ELSE RSub(R(l[2]), RMul(slopes[i], R(l[1])))]
       IN IF \E i \in 1..Len(ls.items) : IsErr(slopes[i]) THEN Raise
          ELSE Return([slopes |-> slopes, intercepts |-> intercepts])

-----------------------------------------------------------------------------
(* lane_detection.detect_lanes                                              *)

NoLocals ==
  [unique_lines |-> PyNone, left_lines |-> <<>>, right_lines |-> <<>>,
   merged_left |-> <<>>, merged_right |-> <<>>, best |-> <<>>]

\* a pairing that makes a Lane of every left line with the best right line
detect_lanes_pair_every(loc, best_left, best_right, extended_left, extended_right) ==
  IF Raised(extended_left) \/ Raised(extended_right)
  THEN [ret |-> Raise, locals |-> [loc EXCEPT !.best = <<best_left, best_right>>]]
  ELSE [ret |-> Return([i \in 1..Len(loc.merged_left) |->
                          <<extended_left.value, extended_right.value>>]),
        locals |-> [loc EXCEPT !.best = <<best_left, best_right>>]]

\* lines 257-277: Step 4, pairing the best line of each side
detect_lanes_pair(loc, best_left, best_right, extended_left, extended_right) ==
  IF Raised(extended_left) \/ Raised(extended_right)
  THEN [ret |-> Raise, locals |-> [loc EXCEPT !.best = <<best_left, best_right>>]]
  ELSE [ret |-> Return(<< <<extended_left.value, extended_right.value>> >>),
        locals |-> [loc EXCEPT !.best = <<best_left, best_right>>]]

BestLine(ls) == ls[Longest(ls, [i \in 1..Len(ls) |-> i], 1, 1)]

detect_lanes_best(loc, best_left, best_right, img_height, img_width) ==
  detect_lanes_pair(loc, best_left, best_right,
                    extend_line_to_full_height(best_left, img_height, img_width),
                    extend_line_to_full_height(best_right, img_height, img_width))

\* lines 252-261: Step 3, merging each side
detect_lanes_merged(unique_lines, sides, left, right, img_height, img_width) ==
  IF Raised(left) \/ Raised(right)
  THEN [ret |-> Raise,
        locals |-> [NoLocals EXCEPT !.unique_lines = unique_lines,
                                    !.left_lines = sides.left_lines,
                                    !.right_lines = sides.right_lines]]
  ELSE IF Len(left.value) > 0 /\ Len(right.value) > 0
  THEN detect_lanes_best([unique_lines |-> unique_lines,
                          left_lines |-> sides.left_lines,
                          right_lines |-> sides.right_lines,
                          merged_left |-> left.value,
                          merged_right |-> right.value,
                          best |-> <<>>],
                         BestLine(left.value), BestLine(right.value),
                         img_height, img_width)
  ELSE [ret |-> Return(<<>>),
        locals |-> [unique_lines |-> unique_lines,
                    left_lines |-> sides.left_lines,
                    right_lines |-> sides.right_lines,
                    merged_left |-> left.value,
                    merged_right |-> right.value,
                    best |-> <<>>]]

\* lines 248-250: Step 2, classification
detect_lanes_classified(unique_lines, sides, img_height, img_width) ==
  IF Raised(sides)
  THEN {[ret |-> Raise, locals |-> [NoLocals EXCEPT !.unique_lines = unique_lines]]}
  ELSE {detect_lanes_merged(unique_lines, sides.value, left, right, img_height, img_width) :
          left \in merge_similar_lines_in_group(sides.value.left_lines),
          right \in merge_similar_lines_in_group(sides.value.right_lines)}

\* lines 240-246: Step 1, duplicate removal
detect_lanes_unique(unique, img_height, img_width) ==
  IF Raised(unique) THEN {[ret |-> Raise, locals |-> NoLocals]}
  ELSE IF unique.value.type = "None" \/ Len(unique.value.items) = 0
  THEN {[ret |-> Return(<<>>), locals |-> [NoLocals EXCEPT !.unique_lines = unique.value]]}
  ELSE detect_lanes_classified(unique.value,
                               classify_lines_by_position_and_slope(unique.value, img_width),
                               img_height, img_width)

\* the outcomes of detect_lanes: the locals at its return, and what it
\* returns, for each outcome of the two merges
detect_lanes_run(ls, img_height, img_width) ==
  IF ls.type = "None" THEN {[ret |-> Return(<<>>), locals |-> NoLocals]}
  ELSE detect_lanes_unique(remove_duplicate_lines(ls), img_height, img_width)

detect_lanes(ls, img_height, img_width) ==
  {run.ret : run \in detect_lanes_run(ls, img_height, img_width)}

-----------------------------------------------------------------------------
(* lane_following: the navigation functions.  lanes is None or a list of    *)
(* lanes, a lane the list [left_line, right_line] of two 4-lists.  The      *)
(* direction labels are modelled without their trailing arrow glyph.        *)

NoLane(lanes) == lanes.type = "None" \/ Len(lanes.items) = 0

\* a lane centre taken at the top row of the frame
get_lane_center_top(lanes, img_height, img_width) ==
  IF NoLane(lanes) THEN Return(<<PyNone, PyNone>>)
  ELSE Return(<<PyNum(PyMax(R(0), PyMin(R(img_width - 1),
                        Norm(lanes.items[1][1][1] + lanes.items[1][2][1], 2)))),
                PyNum(Inf)>>)

get_lane_center(lanes, img_height, img_width) ==
  IF NoLane(lanes) THEN Return(<<PyNone, PyNone>>)
  ELSE IF Len(lanes.items[1]) # 2 THEN Return(<<PyNone, PyNone>>)
  ELSE
  LET left_line == lanes.items[1][1]
      right_line == lanes.items[1][2]
      center_x1 == Norm(left_line[1] + right_line[1], 2)
      center_y1 == Norm(left_line[2] + right_line[2], 2)
      center_x2 == Norm(left_line[3] + right_line[3], 2)
      center_y2 == Norm(left_line[4] + right_line[4], 2)
      vertical == NearZero(RSub(center_x2, center_x1))
      center_slope == IF vertical THEN Inf
                      ELSE PyDiv(RSub(center_y2, center_y1), RSub(center_x2, center_x1))
      y_intercept == RSub(center_y1, RMul(center_slope, center_x1))
      center_intercept ==
        IF vertical THEN center_x1
        ELSE IF NearZero(center_slope) THEN Norm(img_width, 2)
        ELSE PyDiv(RSub(R(img_height - 1), y_intercept), center_slope)
      clamped == PyMax(R(0), PyMin(R(img_width - 1), center_intercept))
  IN IF IsErr(center_slope) \/ IsErr(center_intercept) THEN Raise
     ELSE Return(<<PyNum(clamped), PyNum(center_slope)>>)

tolerance_factor == <<8, 100>>

\* a direction that takes a missing centre for a centred one
recommend_direction_no_sentinel(center_intercept, img_width) ==
  IF center_intercept.type = "None" THEN Return("Go Forward")
  ELSE IF RLt(RSub(center_intercept.v, Norm(img_width, 2)), RNeg(RMul(R(img_width), <<8, 100>>)))
  THEN Return("Steer Left")
  ELSE IF RLt(RMul(R(img_width), <<8, 100>>), RSub(center_intercept.v, Norm(img_width, 2)))
  THEN Return("Steer Right")
  ELSE Return("Go Forward")

\* a steering angle that is not clamped
get_steering_angle_unclamped(center_intercept, img_width, max_angle) ==
  IF center_intercept.type = "None" THEN Return(PyNum(R(0)))
  ELSE Return(PyNum(RMul(PyDiv(RSub(center_intercept.v, Norm(img_width, 2)),
                               Norm(img_width, 2)),
                         R(max_angle))))

recommend_direction(center_intercept, img_width) ==
  IF center_intercept.type = "None" THEN Return("No lane detected")
  ELSE LET image_center_x == Norm(img_width, 2)
           tolerance == RMul(R(img_width), tolerance_factor)
           offset == RSub(center_intercept.v, image_center_x)
       IN IF RLt(offset, RNeg(tolerance)) THEN Return("Steer Left")
          ELSE IF RLt(tolerance, offset) THEN Return("Steer Right")
          ELSE Return("Go Forward")

get_steering_angle(center_intercept, img_width, max_angle) ==
  IF center_intercept.type = "None" THEN Return(PyNum(R(0)))
  ELSE LET image_center_x == Norm(img_width, 2)
           offset == RSub(center_intercept.v, image_center_x)
           normalized_offset == PyDiv(offset, Norm(img_width, 2))
           steering_angle == RMul(normalized_offset, R(max_angle))
       IN IF IsErr(normalized_offset) THEN Raise
          ELSE Return(PyNum(PyMax(R(-max_angle), PyMin(R(max_angle), steering_angle))))

Unknown == [curvature |-> "unknown", curve_direction |-> "unknown", curve_strength |-> R(0)]

analyze_lane_curvature(lanes, img_height) ==
  IF NoLane(lanes) THEN Return(Unknown)
  ELSE IF Len(lanes.items[1]) # 2 THEN Return(Unknown)
  ELSE
  LET left_line == lanes.items[1][1]
      right_line == lanes.items[1][2]
      left_slope == IF Abs(left_line[3] - left_line[1]) * 1000000 > 1
                    THEN PyDiv(R(left_line[4] - left_line[2]), R(left_line[3] - left_line[1]))
                    ELSE Inf
      right_slope == IF Abs(right_line[3] - right_line[1]) * 1000000 > 1
                     THEN PyDiv(R(right_line[4] - right_line[2]), R(right_line[3] - right_line[1]))
                     ELSE Inf
      width_top == Abs(right_line[1] - left_line[1])
      width_bottom == Abs(right_line[3] - left_line[3])
      slope_diff == RAdd(right_slope, left_slope)
      width_change == Abs(width_top - width_bottom)
      shape ==
        IF RLt(RAbs(slope_diff), <<1, 10>>) /\ width_change < 20
        THEN [curvature |-> "straight", curve_direction |-> "none", curve_strength |-> R(0)]
        ELSE IF RLt(<<1, 10>>, slope_diff)
        THEN [curvature |-> "curved", curve_direction |-> "right",
              curve_strength |-> PyMin(RAbs(slope_diff), R(1))]
        ELSE IF RLt(slope_diff, <<-1, 10>>)
        THEN [curvature |-> "curved", curve_direction |-> "left",
              curve_strength |-> PyMin(RAbs(slope_diff), R(1))]
        ELSE [curvature |-> "slight_curve",
              curve_direction |-> IF RLt(R(0), slope_diff) THEN "right" ELSE "left",
              curve_strength |-> PyMin(RAbs(slope_diff), <<1, 2>>)]
  IN IF IsErr(slope_diff) THEN Raise
     ELSE Return([curvature |-> shape.curvature,
                  curve_direction |-> shape.curve_direction,
                  curve_strength |-> shape.curve_strength,
                  slope_difference |-> slope_diff,
                  width_change |-> width_change])

get_lane_width(lanes, img_height) ==
  IF NoLane(lanes) THEN Return(PyNone)
  ELSE IF Len(lanes.items[1]) # 2 THEN Return(PyNone)
  ELSE Return(PyNum(R(Abs(lanes.items[1][2][3] - lanes.items[1][1][3]))))

default_max_angle == 30

\* lines 234-246: the dictionary built from the five results
lane_info(center, direction, steering_angle, curvature_info, lane_width, half_width) ==
  IF \/ Raised(center) \/ Raised(direction) \/ Raised(steering_angle)
     \/ Raised(curvature_info) \/ Raised(lane_width)
  THEN Raise
  ELSE IF center.value[1].type = "None"
  THEN Return([center_x |-> PyNone,
               center_slope |-> center.value[2],
               direction_recommendation |-> direction.value,
               steering_angle |-> steering_angle.value,
               lane_width |-> lane_width.value,
               offset_from_center |-> PyNone,
               offset_percentage |-> PyNone,
               curvature |-> curvature_info.value.curvature,
               curve_direction |-> curvature_info.value.curve_direction,
               curve_strength |-> curvature_info.value.curve_strength])
  ELSE IF IsErr(PyDiv(RSub(center.value[1].v, half_width), half_width)) THEN Raise
  ELSE Return([center_x |-> center.value[1],
               center_slope |-> center.value[2],
               direction_recommendation |-> direction.value,
               steering_angle |-> steering_angle.value,
               lane_width |-> lane_width.value,
               offset_from_center |-> PyNum(RSub(center.value[1].v, half_width)),
               offset_percentage |->
                 PyNum(RMul(PyDiv(RSub(center.value[1].v, half_width), half_width), R(100))),
               curvature |-> curvature_info.value.curvature,
               curve_direction |-> curvature_info.value.curve_direction,
               curve_strength |-> curvature_info.value.curve_strength])

\* lines 228-232: the calls, each on the centre get_lane_center returned
lane_info_of(center, lanes, img_height, img_width) ==
  IF Raised(center) THEN Raise
  ELSE lane_info(center,
                 recommend_direction(center.value[1], img_width),
                 get_steering_angle(center.value[1], img_width, default_max_angle),
                 analyze_lane_curvature(lanes, img_height),
                 get_lane_width(lanes, img_height),
                 Norm(img_width, 2))

get_detailed_lane_info(lanes, img_height, img_width) ==
  lane_info_of(get_lane_center(lanes, img_height, img_width), lanes, img_height, img_width)

-----------------------------------------------------------------------------
(* Inputs: the segments a frame's line detector may report, and the frames  *)

MaxLines == 3

MaxWidth == 6

\* <<img_height, img_width>>
Frames == {<<120, 200>>, <<480, 800>>}

SmallFrames == {<<1, 1>>, <<1, 7>>, <<6, 4>>}

Segments ==
  { <<0, 10, 20, 5>>,          \* slope -0.25, mid-x 10
    <<60, 40, 80, 35>>,        \* slope -0.25, mid-x 70, lower in the image
    <<10, 119, 50, 51>>,       \* slope -1.7, mid-x 30
    <<190, 119, 150, 51>>,     \* slope +1.7, mid-x 170: its mirror image in a 200 frame
    <<90, 0, 110, 10>>,        \* slope 0.5, mid-x 100
    <<100, 0, 160, 33>>,       \* slope 0.55, mid-x 130
    <<150, 0, 170, 12>>,       \* slope 0.6, mid-x 160
    <<-5, 0, -5, 10>>,         \* vertical, left of the frame
    <<10, 50, 90, 50>>,        \* horizontal
    <<30, 30, 30, 30>>,        \* zero length
    <<100, 480, 300, 300>>,    \* slope -0.9: left segment of an 800 x 480 frame
    <<700, 480, 500, 300>> }   \* slope +0.9: its mirror image

SegmentLists == UNION {[1..k -> Segments] : k \in 0..MaxLines}

LineInputs == {PyNone} \cup {PyList(ls) : ls \in SegmentLists}

LaneInputs ==
  {PyNone, PyList(<<>>)} \cup {PyList(<< <<a, b>> >>) : a \in Segments, b \in Segments}

\* center_x values: every half pixel from two left of the frame to two right of it
CenterInputs(w) == {PyNum(Norm(k, 2)) : k \in (-4)..(2 * w + 4)}

MaxAngles == {0, 1, 30}

-----------------------------------------------------------------------------
(* The per-frame pipeline and the single calls                              *)

NoCall == [fn |-> "none", args |-> <<>>, ret |-> Return(<<>>)]

NoDetection == [ret |-> Return(<<>>), locals |-> NoLocals]

NoInfo == Return([center_x |-> PyNone])

Init ==
  /\ pc = "idle"
  /\ frame = <<1, 1>>
  /\ lines = PyNone
  /\ detected = NoDetection
  /\ info = NoInfo
  /\ call = NoCall

\* a frame arrives with the detector's segments
NewFrame ==
  /\ pc = "idle"
  /\ \E f \in Frames, ls \in LineInputs :
       /\ frame' = f
       /\ lines' = ls
  /\ pc' = "frame"
  /\ UNCHANGED <<detected, info, call>>

DetectLanes ==
  /\ pc = "frame"
  /\ detected' \in detect_lanes_run(lines, frame[1], frame[2])
  /\ pc' = "lanes"
  /\ UNCHANGED <<frame, lines, info, call>>

GetDetailedLaneInfo ==
  /\ pc = "lanes"
  /\ ~Raised(detected.ret)
  /\ info' = get_detailed_lane_info(PyList(detected.ret.value), frame[1], frame[2])
  /\ pc' = "info"
  /\ UNCHANGED <<frame, lines, detected, call>>

Called(fn, args, ret) ==
  /\ call' = [fn |-> fn, args |-> args, ret |-> ret]
  /\ pc' = "called"
  /\ UNCHANGED <<frame, lines, detected, info>>

CallRemoveDuplicateLines ==
  /\ pc = "idle"
  /\ \E ls \in LineInputs :
      Called("remove_duplicate_lines", <<ls>>, remove_duplicate_lines(ls))

CallClassify ==
  /\ pc = "idle"
  /\ \E ls \in LineInputs, f \in Frames :
      Called("classify_lines_by_position_and_slope", <<ls, f[2]>>,
             classify_lines_by_position_and_slope(ls, f[2]))

CallMerge ==
  /\ pc = "idle"
  /\ \E ls \in SegmentLists :
       \E ret \in merge_similar_lines_in_group(ls) :
         Called("merge_similar_lines_in_group", <<ls>>, ret)

CallExtend ==
  /\ pc = "idle"
  /\ \E l \in Segments, f \in Frames \cup SmallFrames :
      Called("extend_line_to_full_height", <<l, f[1], f[2]>>,
             extend_line_to_full_height(l, f[1], f[2]))

CallGetSlopesIntercepts ==
  /\ pc = "idle"
  /\ \E ls \in LineInputs :
      Called("get_slopes_intercepts", <<ls>>, get_slopes_intercepts(ls))

CallGetLaneCenter ==
  /\ pc = "idle"
  /\ \E lanes \in LaneInputs, f \in Frames \cup SmallFrames :
      Called("get_lane_center", <<lanes, f[1], f[2]>>, get_lane_center(lanes, f[1], f[2]))

CallAnalyzeLaneCurvature ==
  /\ pc = "idle"
  /\ \E lanes \in LaneInputs, f \in Frames \cup SmallFrames :
      Called("analyze_lane_curvature", <<lanes, f[1]>>, analyze_lane_curvature(lanes, f[1]))

CallGetLaneWidth ==
  /\ pc = "idle"
  /\ \E lanes \in LaneInputs, f \in Frames \cup SmallFrames :
      Called("get_lane_width", <<lanes, f[1]>>, get_lane_width(lanes, f[1]))

CallRecommendDirection ==
  /\ pc = "idle"
  /\ \E w \in 1..MaxWidth :
      \E c \in CenterInputs(w) \cup {PyNone} :
        Called("recommend_direction", <<c, w>>, recommend_direction(c, w))

CallGetSteeringAngle ==
  /\ pc = "idle"
  /\ \E w \in 1..MaxWidth, a \in MaxAngles :
      \E c \in CenterInputs(w) \cup {PyNone} :
        Called("get_steering_angle", <<c, w, a>>, get_steering_angle(c, w, a))

CallGetDetailedLaneInfo ==
  /\ pc = "idle"
  /\ \E lanes \in LaneInputs, f \in Frames \cup SmallFrames :
      Called("get_detailed_lane_info", <<lanes, f[1], f[2]>>,
             get_detailed_lane_info(lanes, f[1], f[2]))

\* the frame is done; nothing is kept across frames
NextFrame ==
  /\ pc \in {"lanes", "info", "called"}
  /\ pc' = "idle"
  /\ frame' = <<1, 1>>
  /\ lines' = PyNone
  /\ detected' = NoDetection
  /\ info' = NoInfo
  /\ call' = NoCall

Next ==
  \/ NewFrame
  \/ DetectLanes
  \/ GetDetailedLaneInfo
  \/ CallRemoveDuplicateLines
  \/ CallClassify
  \/ CallMerge
  \/ CallExtend
  \/ CallGetSlopesIntercepts
  \/ CallGetLaneCenter
  \/ CallAnalyzeLaneCurvature
  \/ CallGetLaneWidth
  \/ CallRecommendDirection
  \/ CallGetSteeringAngle
  \/ CallGetDetailedLaneInfo
  \/ NextFrame

Spec == Init /\ [][Next]_vars

-----------------------------------------------------------------------------
(* Properties                                                               *)

\* the segments of a returned list; None holds none
AsSet(v) == IF v.type = "None" THEN {} ELSE SeqToSet(v.items)

DedupCall == call.fn = "remove_duplicate_lines" /\ ~Raised(call.ret)

\* C1: remove_duplicate_lines is idempotent: applied to its own output it
\* returns the same set of segments as the first application.
C1_Idempotent ==
  DedupCall =>
    LET again == remove_duplicate_lines(call.ret.value)
    IN ~Raised(again) /\ AsSet(again.value) = AsSet(call.ret.value)

DistinctLengths(ls) ==
  \A i, j \in 1..Len(ls) : i # j => Length2(ls[i]) # Length2(ls[j])

Permuted(ls, p) == [i \in 1..Len(ls) |-> ls[p[i]]]

\* C2: for an input in which no two segments have equal length, every
\* permutation of the input yields the same set of representatives.
C2_OrderIndependent ==
  (DedupCall /\ call.args[1].type = "list" /\ DistinctLengths(call.args[1].items)) =>
    \A p \in Permutations(1..Len(call.args[1].items)) :
      LET other == remove_duplicate_lines(PyList(Permuted(call.args[1].items, p)))
      IN ~Raised(other) /\ AsSet(other.value) = AsSet(call.ret.value)

\* the sign of the slope of a line through its two endpoints; 0 when it is
\* vertical or horizontal
SlopeSign(l) == Sgn(l[4] - l[2]) * Sgn(l[3] - l[1])

IsVertical(l) == l[1] = l[3]

LaneReturned == pc \in {"lanes", "info"} /\ ~Raised(detected.ret) /\ Len(detected.ret.value) > 0

\* C3: every Lane detect_lanes returns has a left line of negative slope and a
\* right line of positive slope, by its returned endpoints and by the merged
\* line chosen before extension, unless the line is vertical.
C3_OppositeSlopes ==
  LaneReturned =>
    LET lane == detected.ret.value[1]
        best == detected.locals.best
    IN /\ IsVertical(lane[1]) \/ SlopeSign(lane[1]) < 0
       /\ IsVertical(lane[2]) \/ SlopeSign(lane[2]) > 0
       /\ IsVertical(best[1]) \/ SlopeSign(best[1]) < 0
       /\ IsVertical(best[2]) \/ SlopeSign(best[2]) > 0

ExtendCall == call.fn = "extend_line_to_full_height" /\ ~Raised(call.ret)

\* C4: for every segment and every frame with height >= 1 and width >= 1 the
\* line extend_line_to_full_height returns has both x in [0, width-1] and both
\* y in [0, height-1].
C4_ExtendedWithinFrame ==
  ExtendCall =>
    LET out == call.ret.value
        h == call.args[2]
        w == call.args[3]
    IN /\ out[1] \in 0..(w - 1) /\ out[3] \in 0..(w - 1)
       /\ out[2] \in 0..(h - 1) /\ out[4] \in 0..(h - 1)

ClassifyCall ==
  /\ call.fn = "classify_lines_by_position_and_slope"
  /\ ~Raised(call.ret)
  /\ call.args[1].type = "list"

\* slope < -0.2 and slope > 0.2 of a non-vertical segment, in integers
SteepDown(l) == 5 * (l[4] - l[2]) * (l[3] - l[1]) < -((l[3] - l[1]) * (l[3] - l[1]))

SteepUp(l) == 5 * (l[4] - l[2]) * (l[3] - l[1]) > (l[3] - l[1]) * (l[3] - l[1])

\* C5 as stated: left exactly when mid-x < width/2 and slope < -0.2, right
\* exactly when mid-x > width/2 and slope > 0.2, never both.
C5_AsStated ==
  ClassifyCall =>
    \A l \in SeqToSet(call.args[1].items) :
      LET w == call.args[2]
          inLeft == l \in SeqToSet(call.ret.value.left_lines)
          inRight == l \in SeqToSet(call.ret.value.right_lines)
      IN /\ inLeft <=> (~IsVertical(l) /\ l[1] + l[3] < w /\ SteepDown(l))
         /\ inRight <=> (~IsVertical(l) /\ l[1] + l[3] > w /\ SteepUp(l))
         /\ ~(inLeft /\ inRight)

\* C5 amended: a segment whose mid-x equals width/2 counts as on the right
\* side: right exactly when mid-x >= width/2 and slope > 0.2.
C5_Classification ==
  ClassifyCall =>
    /\ \A l \in SeqToSet(call.args[1].items) :
         LET w == call.args[2]
             inLeft == l \in SeqToSet(call.ret.value.left_lines)
             inRight == l \in SeqToSet(call.ret.value.right_lines)
         IN /\ inLeft <=> (~IsVertical(l) /\ l[1] + l[3] < w /\ SteepDown(l))
            /\ inRight <=> (~IsVertical(l) /\ l[1] + l[3] >= w /\ SteepUp(l))
            /\ ~(inLeft /\ inRight)
    /\ SeqToSet(call.ret.value.left_lines) \cup SeqToSet(call.ret.value.right_lines)
         \subseteq SeqToSet(call.args[1].items)

\* a classification that put a segment with mid-x = width/2 right and another left
C5_Witness ==
  /\ ClassifyCall
  /\ \E l \in SeqToSet(call.ret.value.right_lines) : l[1] + l[3] = call.args[2]
  /\ Len(call.ret.value.left_lines) > 0

Labels == {"Steer Left", "Steer Right", "Go Forward"}

\* C6: with an empty or None lane sequence get_lane_center returns
\* (None, None), recommend_direction returns "No lane detected" (no other
\* label, and never for a given centre), get_steering_angle returns 0 and
\* get_detailed_lane_info returns None for center_x and for the offset.
C6_NoLaneResult ==
  /\ (call.fn = "get_lane_center" /\ NoLane(call.args[1])) =>
       call.ret = Return(<<PyNone, PyNone>>)
  /\ call.fn = "recommend_direction" =>
       /\ ~Raised(call.ret)
       /\ call.args[1].type = "None" => call.ret.value = "No lane detected"
       /\ call.args[1].type # "None" => call.ret.value \in Labels
       /\ "No lane detected" \notin Labels
  /\ (call.fn = "get_steering_angle" /\ call.args[1].type = "None") =>
       call.ret = Return(PyNum(R(0)))
  /\ (call.fn = "get_detailed_lane_info" /\ NoLane(call.args[1])) =>
       /\ ~Raised(call.ret)
       /\ call.ret.value.center_x = PyNone
       /\ call.ret.value.offset_from_center = PyNone
       /\ call.ret.value.direction_recommendation = "No lane detected"
       /\ call.ret.value.steering_angle = PyNum(R(0))
  /\ (pc = "info" /\ Len(detected.ret.value) = 0) =>
       /\ ~Raised(info)
       /\ info.value.center_x = PyNone
       /\ info.value.offset_from_center = PyNone
       /\ info.value.direction_recommendation = "No lane detected"
       /\ info.value.steering_angle = PyNum(R(0))

\* the whole report was asked for an empty lane list and said so
C6_Witness ==
  /\ call.fn = "get_detailed_lane_info"
  /\ call.args[1] = PyList(<<>>)
  /\ ~Raised(call.ret)
  /\ call.ret.value.direction_recommendation = "No lane detected"

PipelineFns ==
  {"get_slopes_intercepts", "remove_duplicate_lines", "classify_lines_by_position_and_slope",
   "merge_similar_lines_in_group", "extend_line_to_full_height", "get_lane_center",
   "analyze_lane_curvature", "get_lane_width"}

\* C7: on lists with vertical, horizontal and zero-length segments, the empty
\* list and None, and every frame, no pipeline operation raises: each
\* completes and returns a value; for a segment with x1 = x2
\* get_slopes_intercepts returns the infinite sentinel as its slope.
C7_NeverRaises ==
  /\ call.fn \in PipelineFns => ~Raised(call.ret)
  /\ ~Raised(detected.ret)
  /\ ~Raised(info)
  /\ (call.fn = "get_slopes_intercepts" /\ call.args[1].type = "list") =>
       /\ ~Raised(call.ret)
       /\ Len(call.ret.value.slopes) = Len(call.args[1].items)
       /\ \A i \in 1..Len(call.args[1].items) :
            call.args[1].items[i][1] = call.args[1].items[i][3]
              => call.ret.value.slopes[i] = Inf

\* slopes were asked of a list holding a vertical and a zero-length segment
C7_Witness ==
  /\ call.fn = "get_slopes_intercepts"
  /\ call.args[1].type = "list"
  /\ \E i, j \in 1..Len(call.args[1].items) :
       /\ call.args[1].items[i][1] = call.args[1].items[i][3]
       /\ call.args[1].items[i][2] # call.args[1].items[i][4]
       /\ call.args[1].items[j][1] = call.args[1].items[j][3]
       /\ call.args[1].items[j][2] = call.args[1].items[j][4]
       /\ call.ret.value.slopes[i] = Inf
       /\ call.ret.value.slopes[j] = Inf

MergeCall == call.fn = "merge_similar_lines_in_group" /\ ~Raised(call.ret)

\* C8 as stated: no line for an empty group, the segment unchanged for a group
\* of one, exactly one line for every group of two or more segments.
C8_AsStated ==
  MergeCall =>
    /\ Len(call.args[1]) = 0 => call.ret.value = <<>>
    /\ Len(call.args[1]) = 1 => call.ret.value = call.args[1]
    /\ Len(call.args[1]) >= 2 => Len(call.ret.value) = 1

\* |slope(a) - slope(b)| < 0.15 for two non-vertical segments, in integers
SlopesWithinThreshold(a, b) ==
  /\ a[1] # a[3] /\ b[1] # b[3]
  /\ 100 * Abs((a[4] - a[2]) * (b[3] - b[1]) - (b[4] - b[2]) * (a[3] - a[1]))
       < 15 * Abs((a[3] - a[1]) * (b[3] - b[1]))

AllNearFirst(ls) == \A j \in 2..Len(ls) : SlopesWithinThreshold(ls[1], ls[j])

EndX(ls) == [k \in 1..(2 * Len(ls)) |->
               IF k % 2 = 1 THEN ls[(k + 1) \div 2][1] ELSE ls[k \div 2][3]]

EndY(ls) == [k \in 1..(2 * Len(ls)) |->
               IF k % 2 = 1 THEN ls[(k + 1) \div 2][2] ELSE ls[k \div 2][4]]

RECURSIVE RSumSeq(_, _)
RSumSeq(f, k) == IF k > Len(f) THEN R(0) ELSE RAdd(f[k], RSumSeq(f, k + 1))

\* the normal equations of least squares: the residuals of y = m x + b over
\* the points sum to zero, and so do the residuals weighted by x
LeastSquares(m, b, xs, ys) ==
  LET res == [k \in 1..Len(xs) |-> RSub(R(ys[k]), RAdd(RMul(m, R(xs[k])), b))]
  IN /\ RSumSeq(res, 1) = R(0)
     /\ RSumSeq([k \in 1..Len(xs) |-> RMul(R(xs[k]), res[k])], 1) = R(0)

\* the integer part of y as a float computes it: truncation toward zero, or
\* one short of an exact integer in magnitude
IntegerPart(y) ==
  IF y[2] = 1 THEN {y[1], y[1] - Sgn(y[1])}
  ELSE {IF y[1] >= 0 THEN y[1] \div y[2] ELSE -((-y[1]) \div y[2])}

\* C8 amended: no line for an empty group, the segment unchanged for a group
\* of one; for two or more segments at least one line and at most one per
\* segment, and exactly one line exactly when every segment's slope is within
\* 0.15 of the first segment's: then the line spans the least and greatest x
\* of the endpoints, with y the integer part (as floating point computes it)
\* of the least-squares fit through all the endpoints.
C8_MergeResult ==
  MergeCall =>
    LET ls == call.args[1]
        out == call.ret.value
    IN /\ Len(ls) = 0 => out = <<>>
       /\ Len(ls) = 1 => out = ls
       /\ Len(ls) >= 2 =>
            /\ Len(out) >= 1 /\ Len(out) <= Len(ls)
            /\ (Len(out) = 1) <=> AllNearFirst(ls)
            /\ AllNearFirst(ls) =>
                 LET xs == EndX(ls)
                     ys == EndY(ls)
                     fit == Polyfit1(xs, ys)
                     lo == SetMin(SeqToSet(xs))
                     hi == SetMax(SeqToSet(xs))
                 IN /\ LeastSquares(fit[1], fit[2], xs, ys)
                    /\ out[1][1] = lo /\ out[1][3] = hi
                    /\ out[1][2] \in IntegerPart(RAdd(RMul(fit[1], R(lo)), fit[2]))
                    /\ out[1][4] \in IntegerPart(RAdd(RMul(fit[1], R(hi)), fit[2]))

\* two different segments of similar slope were merged into one fitted line
C8_Witness ==
  /\ MergeCall
  /\ Len(call.args[1]) = 2
  /\ call.args[1][1] # call.args[1][2]
  /\ Len(call.ret.value) = 1
  /\ call.ret.value[1] \notin SeqToSet(call.args[1])

ScenarioA ==
  /\ frame = <<480, 800>>
  /\ lines = PyList(<< <<100, 480, 300, 300>>, <<700, 480, 500, 300>> >>)

\* C9: for every Lane detect_lanes returns (height >= 2) get_lane_center
\* returns as center_x the average of the two lines' x at the bottom row
\* y = height-1, within [0, width-1]; for a lane whose lines are mirror images
\* about x = width/2, and for the segments of scenario A, the direction is
\* the forward label.
C9_LaneCenter ==
  /\ (pc = "info" /\ LaneReturned /\ frame[1] >= 2) =>
       LET lane == detected.ret.value[1]
           bottom == Norm(lane[1][3] + lane[2][3], 2)
       IN /\ ~Raised(info)
          /\ lane[1][4] = frame[1] - 1 /\ lane[2][4] = frame[1] - 1
          /\ info.value.center_x = PyNum(bottom)
          /\ RLe(R(0), bottom) /\ RLe(bottom, R(frame[2] - 1))
          /\ (lane[1][1] + lane[2][1] = frame[2] /\ lane[1][3] + lane[2][3] = frame[2])
               => info.value.direction_recommendation = "Go Forward"
  /\ (pc = "info" /\ ScenarioA) =>
       /\ Len(detected.ret.value) = 1
       /\ info.value.direction_recommendation = "Go Forward"
       /\ RLe(RAbs(RSub(info.value.center_x.v, R(400))), R(1))

\* scenario A was analysed: one lane, centre 399.5
C9_Witness ==
  /\ pc = "info"
  /\ ScenarioA
  /\ LaneReturned
  /\ info.value.center_x = PyNum(<<799, 2>>)

SteeringCall ==
  /\ call.fn = "get_steering_angle"
  /\ call.args[1].type = "num"
  /\ ~Raised(call.ret)

\* clamp(v, -a, a)
Clamp(v, a) == IF RLt(v, R(-a)) THEN R(-a) ELSE IF RLt(R(a), v) THEN R(a) ELSE v

\* C10 as stated: for every center_x, width > 0 and max_angle >= 0 the angle
\* is offset/(width/2)*max_angle clamped to [-max_angle, max_angle], never
\* outside that range, and negative exactly when center_x < width/2.
C10_AsStated ==
  SteeringCall =>
    LET c == call.args[1].v
        w == call.args[2]
        a == call.args[3]
        angle == call.ret.value.v
    IN /\ angle = Clamp(Norm((2 * c[1] - w * c[2]) * a, w * c[2]), a)
       /\ RLe(R(-a), angle) /\ RLe(angle, R(a))
       /\ RLt(angle, R(0)) <=> RLt(c, Norm(w, 2))

\* C10 amended: the angle is negative exactly when center_x < width/2 and
\* max_angle > 0; with max_angle = 0 it is 0 for every center_x.
C10_SteeringAngle ==
  SteeringCall =>
    LET c == call.args[1].v
        w == call.args[2]
        a == call.args[3]
        angle == call.ret.value.v
    IN /\ angle = Clamp(Norm((2 * c[1] - w * c[2]) * a, w * c[2]), a)
       /\ RLe(R(-a), angle) /\ RLe(angle, R(a))
       /\ RLt(angle, R(0)) <=> (RLt(c, Norm(w, 2)) /\ a > 0)
       /\ a = 0 => angle = R(0)

\* a centre left of the frame was clamped to -max_angle
C10_Witness ==
  /\ SteeringCall
  /\ call.args[3] > 0
  /\ RLt(call.args[1].v, R(0))
  /\ call.ret.value.v = R(-call.args[3])

DetectLanesReturned == pc \in {"lanes", "info"}

\* no segment of the frame's input classifies to the side
SideUndetected(side) ==
  \/ lines.type = "None"
  \/ \A i \in 1..Len(lines.items) : ClassifyLine(lines.items[i], frame[2]).side # side

\* C11: detect_lanes returns a list of at most one Lane: exactly one, the pair
\* of the extended longest merged line of each side, when both merged groups
\* are non-empty, and the empty list otherwise (None or empty input, nothing
\* left by the filter, a side with no line); the report on an empty result
\* has the direction "No lane detected".
C11_AtMostOneLane ==
  /\ DetectLanesReturned =>
       LET loc == detected.locals
           both == Len(loc.merged_left) > 0 /\ Len(loc.merged_right) > 0
       IN /\ ~Raised(detected.ret)
          /\ Len(detected.ret.value) <= 1
          /\ Len(detected.ret.value) = 1 <=> both
          /\ Len(loc.merged_left) > 0 <=> Len(loc.left_lines) > 0
          /\ Len(loc.merged_right) > 0 <=> Len(loc.right_lines) > 0
          /\ both =>
               /\ Len(detected.ret.value[1]) = 2
               /\ Return(detected.ret.value[1][1]) =
                    extend_line_to_full_height(BestLine(loc.merged_left), frame[1], frame[2])
               /\ Return(detected.ret.value[1][2]) =
                    extend_line_to_full_height(BestLine(loc.merged_right), frame[1], frame[2])
          /\ (lines.type = "None" \/ Len(lines.items) = 0) => detected.ret.value = <<>>
          /\ (loc.unique_lines.type = "None" \/ Len(loc.unique_lines.items) = 0)
               => detected.ret.value = <<>>
          /\ (SideUndetected("left") \/ SideUndetected("right")) => detected.ret.value = <<>>
  /\ (pc = "info" /\ Len(detected.ret.value) = 0) =>
       /\ ~Raised(info)
       /\ info.value.direction_recommendation = "No lane detected"
       /\ info.value.center_x = PyNone

\* a frame whose segments all lie on the left gave no Lane, and the report
\* said so
C11_Witness ==
  /\ pc = "info"
  /\ lines.type = "list" /\ Len(lines.items) > 0
  /\ Len(detected.locals.merged_left) > 0
  /\ Len(detected.locals.merged_right) = 0
  /\ detected.ret.value = <<>>
  /\ info.value.direction_recommendation = "No lane detected"

\* a frame with more than one merged line on each side gave exactly one Lane
C11_WitnessPair ==
  /\ pc = "lanes"
  /\ Len(detected.locals.merged_left) > 1
  /\ Len(detected.locals.merged_right) > 0
  /\ Len(detected.ret.value) = 1

====
